---- MODULE Spec2Model ----
(***************************************************************************)
(* Control core of the bow controller (anchor winch + bow propeller), as   *)
(* wired by BoatBowControlApp: relay motors, home sensor, state manager,   *)
(* emergency stop service, automatic mode controller, pulse counter        *)
(* service, physical remote and the SignalK command bindings.              *)
(*                                                                         *)
(* Lengths are counted in centimetres: meters_per_pulse is 0.01 m, so one  *)
(* pulse is one unit and the tolerance (2 * meters_per_pulse) is two.      *)
(* Times are milliseconds as returned by millis().                         *)
(***************************************************************************)
EXTENDS Integers, Sequences, FiniteSets, TLC

\* ---------------------------------------------------------------- bounds
MaxPulse == 4
MaxTicks == 2
\* millis() and the time stamps are unsigned long and wrap around.  The
\* counter is modelled MillisBits wide, which keeps every sum below 2^31; the
\* window arithmetic is the same at any width above the windows.
MillisBits == 24
MillisModulus == 2 ^ MillisBits

\* ------------------------------------------------------ program constants
kDoublePressMs == 800
kLongPressMs == 2000
kConnectionStableMs == 5000
MetersPerPulse == 1
ToleranceFactor == 2
NoTarget == -1

\* The clock is advanced in steps of the connection settling time; two
\* operations between two steps read the same millis() value.
TimeStep == kConnectionStableMs
MaxTime == MaxTicks * TimeStep

\* Values the network sends as target (centimetres) and as command codes.
TargetInputs == {NoTarget, 0, 1, 4}
CommandInputs == {-1, 0, 1}

WinchPins == {"WINCH_UP", "WINCH_DOWN"}
BowPins == {"BOW_PORT", "BOW_STARBOARD"}
OutputPins == WinchPins \cup BowPins

VARIABLES
    pins,                   \* level of every relay output pin
    home_pin,               \* level of the ANCHOR_HOME input (LOW = at home)
    overlap,                \* motors whose two relays were ever LOW together
    motor_active, motor_direction,          \* ESP32Motor
    bow_active, bow_direction,              \* BowPropellerMotor
    was_active,                             \* ESP32Sensor edge memory
    pulse_count, rode_length,               \* StateManager
    emergency_stop_active, auto_mode_enabled, auto_mode_target,
    commands_allowed, manual_control,
    enabled, target_length, target_reached, \* AutomaticModeController
    remote_active, prev_button_active,      \* RemoteControl
    last_press_ms, press_start_ms, long_press_fired,
    was_connected, connection_stable_time,  \* SignalKService monitor
    now,                                    \* millis()
    pc,                                     \* position inside PulseCounterService::update
    log                                     \* calls and callbacks of the last operation

vars == <<pins, home_pin, overlap, motor_active, motor_direction, bow_active,
          bow_direction, was_active, pulse_count, rode_length,
          emergency_stop_active, auto_mode_enabled, auto_mode_target,
          commands_allowed, manual_control, enabled, target_length,
          target_reached, remote_active, prev_button_active, last_press_ms,
          press_start_ms, long_press_fired, was_connected,
          connection_stable_time, now, pc, log>>

\* The program state as one record, so that handlers compose as functions.
S == [pins |-> pins, home_pin |-> home_pin, overlap |-> overlap,
      motor_active |-> motor_active, motor_direction |-> motor_direction,
      bow_active |-> bow_active, bow_direction |-> bow_direction,
      was_active |-> was_active, pulse_count |-> pulse_count,
      rode_length |-> rode_length,
      emergency_stop_active |-> emergency_stop_active,
      auto_mode_enabled |-> auto_mode_enabled,
      auto_mode_target |-> auto_mode_target,
      commands_allowed |-> commands_allowed,
      manual_control |-> manual_control, enabled |-> enabled,
      target_length |-> target_length, target_reached |-> target_reached,
      remote_active |-> remote_active,
      prev_button_active |-> prev_button_active,
      last_press_ms |-> last_press_ms, press_start_ms |-> press_start_ms,
      long_press_fired |-> long_press_fired, was_connected |-> was_connected,
      connection_stable_time |-> connection_stable_time, now |-> now,
      pc |-> pc, log |-> log]

Commit(s) ==
    /\ pins' = s.pins
    /\ home_pin' = s.home_pin
    /\ overlap' = s.overlap
    /\ motor_active' = s.motor_active
    /\ motor_direction' = s.motor_direction
    /\ bow_active' = s.bow_active
    /\ bow_direction' = s.bow_direction
    /\ was_active' = s.was_active
    /\ pulse_count' = s.pulse_count
    /\ rode_length' = s.rode_length
    /\ emergency_stop_active' = s.emergency_stop_active
    /\ auto_mode_enabled' = s.auto_mode_enabled
    /\ auto_mode_target' = s.auto_mode_target
    /\ commands_allowed' = s.commands_allowed
    /\ manual_control' = s.manual_control
    /\ enabled' = s.enabled
    /\ target_length' = s.target_length
    /\ target_reached' = s.target_reached
    /\ remote_active' = s.remote_active
    /\ prev_button_active' = s.prev_button_active
    /\ last_press_ms' = s.last_press_ms
    /\ press_start_ms' = s.press_start_ms
    /\ long_press_fired' = s.long_press_fired
    /\ was_connected' = s.was_connected
    /\ connection_stable_time' = s.connection_stable_time
    /\ now' = s.now
    /\ pc' = s.pc
    /\ log' = s.log

\* Every operation starts with an empty call log.
Begin == [S EXCEPT !.log = <<>>]
Logged(s, event) == [s EXCEPT !.log = Append(@, event)]

\* ---------------------------------------------------------------- GPIO
BothLow(p, pinset) == \A q \in pinset : p[q] = "LOW"

\* A write that changes the level of a relay pin is recorded in the log:
\* LOW energizes the relay (":on"), HIGH releases it (":off").
digitalWrite(s, pin, level) ==
    LET p == [s.pins EXCEPT ![pin] = level]
        s1 == IF s.pins[pin] = level THEN s
              ELSE Logged(s, pin \o (IF level = "LOW" THEN ":on" ELSE ":off"))
    IN  [s1 EXCEPT !.pins = p,
                   !.overlap = @ \cup
                       (IF BothLow(p, WinchPins) THEN {"winch"} ELSE {}) \cup
                       (IF BothLow(p, BowPins) THEN {"bow"} ELSE {})]

\* ---------------------------------------------------------- ESP32Motor
\* Faulty variant: the up relay is energized before the down relay is released.
ESP32Motor_moveUp_energizeFirst(s) ==
    LET s1 == digitalWrite(s, "WINCH_UP", "LOW")
        s2 == digitalWrite(s1, "WINCH_DOWN", "HIGH")
    IN  [s2 EXCEPT !.motor_active = TRUE, !.motor_direction = "UP"]

ESP32Motor_moveUp(s) ==
    LET s1 == digitalWrite(s, "WINCH_DOWN", "HIGH")
        s2 == digitalWrite(s1, "WINCH_UP", "LOW")
    IN  [s2 EXCEPT !.motor_active = TRUE, !.motor_direction = "UP"]

\* Faulty variant: the down relay is released before it is energized again.
ESP32Motor_moveDown_releaseFirst(s) ==
    LET s0 == digitalWrite(s, "WINCH_DOWN", "HIGH")
        s1 == digitalWrite(s0, "WINCH_UP", "HIGH")
        s2 == digitalWrite(s1, "WINCH_DOWN", "LOW")
    IN  [s2 EXCEPT !.motor_active = TRUE, !.motor_direction = "DOWN"]

ESP32Motor_moveDown(s) ==
    LET s1 == digitalWrite(s, "WINCH_UP", "HIGH")
        s2 == digitalWrite(s1, "WINCH_DOWN", "LOW")
    IN  [s2 EXCEPT !.motor_active = TRUE, !.motor_direction = "DOWN"]

ESP32Motor_stop(s) ==
    LET s1 == digitalWrite(s, "WINCH_UP", "HIGH")
        s2 == digitalWrite(s1, "WINCH_DOWN", "HIGH")
    IN  [s2 EXCEPT !.motor_active = FALSE, !.motor_direction = "STOPPED"]

ESP32Motor_isActive(s) == s.motor_active
ESP32Motor_isMovingUp(s) == s.motor_active /\ s.pins["WINCH_UP"] = "LOW"
ESP32Motor_isMovingDown(s) == s.motor_active /\ s.pins["WINCH_DOWN"] = "LOW"

\* --------------------------------------------------- BowPropellerMotor
\* Faulty variant: the port relay is activated before starboard is released.
BowPropellerMotor_turnPort_energizeFirst(s) ==
    LET s1 == digitalWrite(s, "BOW_PORT", "LOW")
        s2 == digitalWrite(s1, "BOW_STARBOARD", "HIGH")
    IN  [s2 EXCEPT !.bow_active = TRUE, !.bow_direction = "PORT"]

BowPropellerMotor_turnPort(s) ==
    LET s1 == digitalWrite(s, "BOW_STARBOARD", "HIGH")
        s2 == digitalWrite(s1, "BOW_PORT", "LOW")
    IN  [s2 EXCEPT !.bow_active = TRUE, !.bow_direction = "PORT"]

BowPropellerMotor_turnStarboard(s) ==
    LET s1 == digitalWrite(s, "BOW_PORT", "HIGH")
        s2 == digitalWrite(s1, "BOW_STARBOARD", "LOW")
    IN  [s2 EXCEPT !.bow_active = TRUE, !.bow_direction = "STARBOARD"]

BowPropellerMotor_stop(s) ==
    LET s1 == digitalWrite(s, "BOW_PORT", "HIGH")
        s2 == digitalWrite(s1, "BOW_STARBOARD", "HIGH")
    IN  [s2 EXCEPT !.bow_active = FALSE, !.bow_direction = "STOPPED"]

BowPropellerMotor_isActive(s) == s.bow_active

\* ------------------------------------------------- BowPropellerController
bow_turnPort(s) == BowPropellerMotor_turnPort(Logged(s, "bow.turnPort"))
bow_turnStarboard(s) ==
    BowPropellerMotor_turnStarboard(Logged(s, "bow.turnStarboard"))
bow_stop(s) == BowPropellerMotor_stop(Logged(s, "bow.stop"))

\* ---------------------------------------------- ESP32Sensor / HomeSensor
readState(s) == s.home_pin = "LOW"
isHome(s) == readState(s)

\* justActivated() returns the edge and remembers the current level.
justActivated_result(s) == readState(s) /\ ~s.was_active
justActivated_state(s) == [s EXCEPT !.was_active = readState(s)]
\* Faulty variant: the departure is not recorded while away from home.
justDeactivated_state_stale(s) == s

justDeactivated_state(s) == [s EXCEPT !.was_active = readState(s)]

\* ------------------------------------------------ AnchorWinchController
winch_stop(s) == ESP32Motor_stop(Logged(s, "winch.stop"))

\* Faulty variant: moveUp() without the home sensor check.
winch_moveUp_withoutInterlock(s) == ESP32Motor_moveUp(Logged(s, "winch.moveUp"))

winch_moveUp(s) ==
    LET s0 == Logged(s, "winch.moveUp")
    IN  IF isHome(s0) THEN winch_stop(s0) ELSE ESP32Motor_moveUp(s0)

winch_moveDown(s) == ESP32Motor_moveDown(Logged(s, "winch.moveDown"))

winch_isActive(s) == ESP32Motor_isActive(s)
winch_isMovingUp(s) == ESP32Motor_isMovingUp(s)
winch_isMovingDown(s) == ESP32Motor_isMovingDown(s)

\* ---------------------------------------------------------- StateManager
incrementPulse(s) == [s EXCEPT !.pulse_count = @ + 1]

\* Faulty variant: decrement without the clamp at zero.
decrementPulse_withoutClamp(s) == [s EXCEPT !.pulse_count = @ - 1]

decrementPulse(s) ==
    LET n == s.pulse_count - 1
    IN  [s EXCEPT !.pulse_count = IF n < 0 THEN 0 ELSE n]

\* The only count ever set is 0 (home arrival and reset command).
setPulseCount(s, count) ==
    Logged([s EXCEPT !.pulse_count = count], "setPulseCount")
setRodeLength(s, length) == [s EXCEPT !.rode_length = length]
setEmergencyStopActive(s, active) == [s EXCEPT !.emergency_stop_active = active]
setAutoModeEnabled(s, e) == [s EXCEPT !.auto_mode_enabled = e]
setAutoModeTarget(s, target) == [s EXCEPT !.auto_mode_target = target]
setCommandsAllowed(s, allowed) == [s EXCEPT !.commands_allowed = allowed]
setManualControl(s, command) == [s EXCEPT !.manual_control = command]

\* ------------------------------------------------- EmergencyStopService
\* The registered callback (emergencyStopChangedThunk) is recorded in the log.
state_change_callback(s, active, reason) ==
    Logged(s, IF active THEN "callback(true," \o reason \o ")"
                        ELSE "callback(false," \o reason \o ")")

\* Faulty variant: activation forgets the bow propeller.
setActive_withoutBowStop(s, active, reason) ==
    IF active = s.emergency_stop_active
    THEN s
    ELSE LET s1 == setEmergencyStopActive(s, active)
             s2 == IF active
                   THEN setManualControl(
                            setAutoModeEnabled(winch_stop(s1), FALSE), 0)
                   ELSE s1
         IN  state_change_callback(s2, active, reason)

\* Faulty variant: no early return when the state is already the requested one.
setActive_withoutEarlyReturn(s, active, reason) ==
    LET s1 == setEmergencyStopActive(s, active)
        s2 == IF active
              THEN setManualControl(
                       setAutoModeEnabled(bow_stop(winch_stop(s1)), FALSE), 0)
              ELSE s1
    IN  state_change_callback(s2, active, reason)

\* Faulty variant: the stop sequence runs on every change, also on clearing.
setActive_stopsOnClear(s, active, reason) ==
    IF active = s.emergency_stop_active
    THEN s
    ELSE LET s1 == setEmergencyStopActive(s, active)
             s2 == setManualControl(
                       setAutoModeEnabled(bow_stop(winch_stop(s1)), FALSE), 0)
         IN  state_change_callback(s2, active, reason)

EmergencyStopService_setActive(s, active, reason) ==
    IF active = s.emergency_stop_active
    THEN s
    ELSE LET s1 == setEmergencyStopActive(s, active)
             s2 == IF active
                   THEN setManualControl(
                            setAutoModeEnabled(bow_stop(winch_stop(s1)), FALSE),
                            0)
                   ELSE s1
         IN  state_change_callback(s2, active, reason)

\* ---------------------------------------------- AutomaticModeController
Tolerance == MetersPerPulse * ToleranceFactor

Abs(x) == IF x < 0 THEN -x ELSE x

\* Faulty variant: disabling leaves the winch running.
auto_setEnabled_withoutStop(s, e) == [s EXCEPT !.enabled = e]

auto_setEnabled(s, e) ==
    LET s1 == [s EXCEPT !.enabled = e]
    IN  IF ~e THEN winch_stop(s1) ELSE s1

\* Faulty variant: arming a target also enables the controller.
auto_setTargetLength_enables(s, meters) ==
    [s EXCEPT !.target_length = meters, !.enabled = TRUE]

auto_setTargetLength(s, meters) == [s EXCEPT !.target_length = meters]

\* Faulty variant: update() runs on a negative target.
auto_update_ignoresNoTarget(s, current_length) ==
    IF ~s.enabled
    THEN s
    ELSE LET error == current_length - s.target_length
         IN  IF s.target_length = 0
             THEN IF isHome(s)
                  THEN s
                  ELSE IF ~winch_isMovingUp(s) THEN winch_moveUp(s) ELSE s
             ELSE IF Abs(error) <= Tolerance
                  THEN LET s1 == IF winch_isActive(s) THEN winch_stop(s) ELSE s
                       IN  [s1 EXCEPT !.enabled = FALSE,
                                      !.target_reached = TRUE]
                  ELSE IF error < 0
                       THEN IF ~winch_isMovingDown(s)
                            THEN winch_moveDown(s) ELSE s
                       ELSE IF ~winch_isMovingUp(s)
                            THEN winch_moveUp(s) ELSE s

\* Faulty variant: the tolerance band excludes its boundary.
auto_update_strictTolerance(s, current_length) ==
    IF ~s.enabled \/ s.target_length < 0
    THEN s
    ELSE LET error == current_length - s.target_length
         IN  IF s.target_length = 0
             THEN IF isHome(s)
                  THEN s
                  ELSE IF ~winch_isMovingUp(s) THEN winch_moveUp(s) ELSE s
             ELSE IF Abs(error) < Tolerance
                  THEN LET s1 == IF winch_isActive(s) THEN winch_stop(s) ELSE s
                       IN  [s1 EXCEPT !.enabled = FALSE,
                                      !.target_reached = TRUE]
                  ELSE IF error < 0
                       THEN IF ~winch_isMovingDown(s)
                            THEN winch_moveDown(s) ELSE s
                       ELSE IF ~winch_isMovingUp(s)
                            THEN winch_moveUp(s) ELSE s

\* Faulty variant: the direction commands are issued on every tick.
auto_update_notIdempotent(s, current_length) ==
    IF ~s.enabled \/ s.target_length < 0
    THEN s
    ELSE LET error == current_length - s.target_length
         IN  IF s.target_length = 0
             THEN IF isHome(s)
                  THEN s
                  ELSE IF ~winch_isMovingUp(s) THEN winch_moveUp(s) ELSE s
             ELSE IF Abs(error) <= Tolerance
                  THEN LET s1 == IF winch_isActive(s) THEN winch_stop(s) ELSE s
                       IN  [s1 EXCEPT !.enabled = FALSE,
                                      !.target_reached = TRUE]
                  ELSE IF error < 0
                       THEN winch_moveDown(s)
                       ELSE winch_moveUp(s)

\* Faulty variant: target 0 is handled by the distance rule like any other.
auto_update_homeByDistance(s, current_length) ==
    IF ~s.enabled \/ s.target_length < 0
    THEN s
    ELSE LET error == current_length - s.target_length
         IN  IF Abs(error) <= Tolerance
             THEN LET s1 == IF winch_isActive(s) THEN winch_stop(s) ELSE s
                  IN  [s1 EXCEPT !.enabled = FALSE, !.target_reached = TRUE]
             ELSE IF error < 0
                  THEN IF ~winch_isMovingDown(s) THEN winch_moveDown(s) ELSE s
                  ELSE IF ~winch_isMovingUp(s) THEN winch_moveUp(s) ELSE s

auto_update(s, current_length) ==
    IF ~s.enabled \/ s.target_length < 0
    THEN s
    ELSE LET error == current_length - s.target_length
         IN  IF s.target_length = 0
             THEN IF isHome(s)
                  THEN s
                  ELSE IF ~winch_isMovingUp(s) THEN winch_moveUp(s) ELSE s
             ELSE IF Abs(error) <= Tolerance
                  THEN LET s1 == IF winch_isActive(s) THEN winch_stop(s) ELSE s
                       IN  [s1 EXCEPT !.enabled = FALSE,
                                      !.target_reached = TRUE]
                  ELSE IF error < 0
                       THEN IF ~winch_isMovingDown(s)
                            THEN winch_moveDown(s) ELSE s
                       ELSE IF ~winch_isMovingUp(s)
                            THEN winch_moveUp(s) ELSE s

\* The value consumeTargetReached() returns: the latch as the call finds it.
auto_consumeTargetReached_result(s) == s.target_reached

\* Faulty variant: the latch is read and left standing.
auto_consumeTargetReached_keepsLatch(s) == s

auto_consumeTargetReached(s) == [s EXCEPT !.target_reached = FALSE]

\* -------------------------------------------------- PulseCounterService
\* Faulty variant: a winch found moving up at home is left running.
PulseCounterService_home_withoutStop(s) ==
    IF isHome(s)
    THEN LET s2 == IF justActivated_result(s)
                   THEN setPulseCount(justActivated_state(s), 0)
                   ELSE justActivated_state(s)
         IN  IF s2.auto_mode_enabled /\ s2.auto_mode_target = 0
             THEN setAutoModeEnabled(s2, FALSE)
             ELSE s2
    ELSE justDeactivated_state(s)

\* First half of update(): home sensor handling (lines 14-36).
PulseCounterService_home(s) ==
    IF isHome(s)
    THEN LET s1 == IF winch_isMovingUp(s) THEN winch_stop(s) ELSE s
             s2 == IF justActivated_result(s1)
                   THEN setPulseCount(justActivated_state(s1), 0)
                   ELSE justActivated_state(s1)
         IN  IF s2.auto_mode_enabled /\ s2.auto_mode_target = 0
             THEN setAutoModeEnabled(s2, FALSE)
             ELSE s2
    ELSE justDeactivated_state(s)

\* Faulty variant: the length is not recomputed when the count is zero.
PulseCounterService_length_skipsZero(s) ==
    IF s.pulse_count = 0 THEN s
    ELSE setRodeLength(s, s.pulse_count * MetersPerPulse)

\* Second half of update(): rode length from the pulse count (lines 39-42).
PulseCounterService_length(s) ==
    setRodeLength(s, s.pulse_count * MetersPerPulse)

\* -------------------------------------------------------- RemoteControl
\* BoatBowControlApp constructs RemoteControl(state_manager_, winch_controller_)
\* and never calls setAutoModeController: the pointer stays null.
remote_auto_mode_controller == FALSE

\* Rising edge of the combined button state: double-press detection.
remote_risingEdge(s, any_button_active) ==
    IF any_button_active /\ ~s.prev_button_active
    THEN LET s1 == IF s.last_press_ms > 0
                      /\ s.now - s.last_press_ms <= kDoublePressMs
                   THEN setEmergencyStopActive(s, TRUE)
                   ELSE s
         IN  [s1 EXCEPT !.last_press_ms = s.now,
                        !.press_start_ms = s.now,
                        !.long_press_fired = FALSE]
    ELSE s

\* Long press clears emergency stop.
remote_longPress(s, any_button_active) ==
    IF any_button_active /\ s.emergency_stop_active /\ ~s.long_press_fired
       /\ s.press_start_ms > 0 /\ s.now - s.press_start_ms >= kLongPressMs
    THEN [setEmergencyStopActive(s, FALSE) EXCEPT !.long_press_fired = TRUE]
    ELSE s

remote_release(s, any_button_active) ==
    LET s1 == IF ~any_button_active /\ s.prev_button_active
              THEN [s EXCEPT !.press_start_ms = 0, !.long_press_fired = FALSE]
              ELSE s
    IN  [s1 EXCEPT !.prev_button_active = any_button_active]

\* Faulty variant: the buttons drive the winch whatever the emergency stop.
remote_drive_withoutGating(s, up_pressed, down_pressed) ==
    IF up_pressed
    THEN [winch_moveUp(s) EXCEPT !.remote_active = TRUE]
    ELSE IF down_pressed
         THEN [winch_moveDown(s) EXCEPT !.remote_active = TRUE]
         ELSE IF s.remote_active
              THEN [winch_stop(s) EXCEPT !.remote_active = FALSE]
              ELSE s

\* Faulty variant: a tick with neither button held always stops the winch.
remote_drive_stopsAlways(s, up_pressed, down_pressed) ==
    IF s.emergency_stop_active
    THEN IF s.remote_active
         THEN [winch_stop(s) EXCEPT !.remote_active = FALSE]
         ELSE s
    ELSE IF up_pressed
         THEN [winch_moveUp(s) EXCEPT !.remote_active = TRUE]
         ELSE IF down_pressed
              THEN [winch_moveDown(s) EXCEPT !.remote_active = TRUE]
              ELSE [winch_stop(s) EXCEPT !.remote_active = FALSE]

\* Faulty variant: the down button is looked at before the up button.
remote_drive_downFirst(s, up_pressed, down_pressed) ==
    IF s.emergency_stop_active
    THEN IF s.remote_active
         THEN [winch_stop(s) EXCEPT !.remote_active = FALSE]
         ELSE s
    ELSE LET s1 == IF (up_pressed \/ down_pressed)
                      /\ remote_auto_mode_controller /\ s.enabled
                   THEN setAutoModeEnabled(auto_setEnabled(s, FALSE), FALSE)
                   ELSE s
         IN  IF down_pressed
             THEN [winch_moveDown(s1) EXCEPT !.remote_active = TRUE]
             ELSE IF up_pressed
                  THEN [winch_moveUp(s1) EXCEPT !.remote_active = TRUE]
                  ELSE IF s1.remote_active
                       THEN [winch_stop(s1) EXCEPT !.remote_active = FALSE]
                       ELSE s1

\* Lines 61-95: emergency gating, automatic mode override, deadman switch.
remote_drive(s, up_pressed, down_pressed) ==
    IF s.emergency_stop_active
    THEN IF s.remote_active
         THEN [winch_stop(s) EXCEPT !.remote_active = FALSE]
         ELSE s
    ELSE LET s1 == IF (up_pressed \/ down_pressed)
                      /\ remote_auto_mode_controller /\ s.enabled
                   THEN setAutoModeEnabled(auto_setEnabled(s, FALSE), FALSE)
                   ELSE s
         IN  IF up_pressed
             THEN [winch_moveUp(s1) EXCEPT !.remote_active = TRUE]
             ELSE IF down_pressed
                  THEN [winch_moveDown(s1) EXCEPT !.remote_active = TRUE]
                  ELSE IF s1.remote_active
                       THEN [winch_stop(s1) EXCEPT !.remote_active = FALSE]
                       ELSE s1

RemoteControl_processInputs(s, up_pressed, down_pressed, func3_pressed, func4_pressed) ==
    LET any_button_active ==
            up_pressed \/ down_pressed \/ func3_pressed \/ func4_pressed
        s1 == remote_risingEdge(s, any_button_active)
        s2 == remote_longPress(s1, any_button_active)
        s3 == remote_release(s2, any_button_active)
    IN  remote_drive(s3, up_pressed, down_pressed)

\* ------------------------------------------------------- SignalKService
\* Each operator is the lambda bound to one SignalK command path.
signalk_reset(s, reset_signal) ==
    IF s.emergency_stop_active THEN s
    ELSE IF ~s.commands_allowed THEN s
    ELSE IF reset_signal
         THEN setRodeLength(setPulseCount(s, 0), 0)
         ELSE s

\* Faulty variant: the emergency command is gated like every other command.
signalk_emergency_gatedLikeOthers(s, emergency_active) ==
    IF ~s.commands_allowed
    THEN s
    ELSE EmergencyStopService_setActive(
             Logged(s, IF emergency_active THEN "setActive(true)"
                                           ELSE "setActive(false)"),
             emergency_active, "signalk")

signalk_emergency(s, emergency_active) ==
    IF ~s.commands_allowed /\ ~s.emergency_stop_active
    THEN s
    ELSE EmergencyStopService_setActive(
             Logged(s, IF emergency_active THEN "setActive(true)"
                                           ELSE "setActive(false)"),
             emergency_active, "signalk")

\* Faulty variant: the command acts first and automatic mode is disabled last.
signalk_manual_actsFirst(s, command) ==
    IF s.emergency_stop_active THEN s
    ELSE IF ~s.commands_allowed THEN s
    ELSE LET s1 == IF command = 1 THEN winch_moveUp(s)
                   ELSE IF command = -1 THEN winch_moveDown(s)
                   ELSE winch_stop(s)
         IN  setAutoModeEnabled(auto_setEnabled(s1, FALSE), FALSE)

\* The value the manual control lambda returns to the status output.
signalk_manual_result(s, command) ==
    IF s.emergency_stop_active THEN 0
    ELSE IF ~s.commands_allowed THEN 0
    ELSE command

\* A manual command code that is neither up, down nor stop.
OtherCommand == 2

signalk_manual(s, command) ==
    IF s.emergency_stop_active THEN s
    ELSE IF ~s.commands_allowed THEN s
    ELSE LET s1 == setAutoModeEnabled(auto_setEnabled(s, FALSE), FALSE)
         IN  IF command = 1 THEN winch_moveUp(s1)
             ELSE IF command = -1 THEN winch_moveDown(s1)
             ELSE winch_stop(s1)

\* value is the command in halves: enable = (value > 0.5).
signalk_autoMode(s, value) ==
    IF s.emergency_stop_active THEN s
    ELSE IF ~s.commands_allowed THEN s
    ELSE LET enable == 2 * value > 1
         IN  IF enable # s.enabled
             THEN IF enable
                  THEN LET s1 == setAutoModeEnabled(auto_setEnabled(s, TRUE),
                                                    TRUE)
                       IN  IF s1.target_length >= 0
                           THEN auto_update(s1, s1.rode_length)
                           ELSE s1
                  ELSE setAutoModeEnabled(auto_setEnabled(s, FALSE), FALSE)
             ELSE s

\* Faulty variant: a target arriving while enabled is acted on at once.
signalk_target_updatesWhenEnabled(s, target) ==
    IF s.emergency_stop_active THEN s
    ELSE IF ~s.commands_allowed THEN s
    ELSE IF target >= 0
         THEN LET s1 == setAutoModeTarget(auto_setTargetLength(s, target),
                                          target)
              IN  IF s1.enabled
                  THEN auto_update(s1, s1.rode_length)
                  ELSE s1
         ELSE s

signalk_target(s, target) ==
    IF s.emergency_stop_active THEN s
    ELSE IF ~s.commands_allowed THEN s
    ELSE IF target >= 0
         THEN LET s1 == setAutoModeTarget(auto_setTargetLength(s, target),
                                          target)
              IN  IF s1.enabled
                  THEN setAutoModeEnabled(auto_setEnabled(s1, FALSE), FALSE)
                  ELSE s1
         ELSE s

\* Faulty variant: the home command arms even during manual motion.
signalk_home_withoutManualCheck(s, go_home) ==
    IF s.emergency_stop_active
    THEN IF go_home THEN Logged(s, "home_command_output(false)") ELSE s
    ELSE IF ~s.commands_allowed THEN s
    ELSE IF go_home
         THEN LET s1 == Logged(
                      setAutoModeTarget(auto_setTargetLength(s, 0), 0),
                      "target_output(0)")
                  s2 == IF s1.enabled
                        THEN setAutoModeEnabled(auto_setEnabled(s1, FALSE),
                                                FALSE)
                        ELSE s1
              IN  Logged(s2, "home_command_output(false)")
         ELSE s

\* The lambda's own calls on the command and target outputs are recorded in
\* the log: they tell a home command from a target command of 0.
signalk_home(s, go_home) ==
    IF s.emergency_stop_active
    THEN IF go_home THEN Logged(s, "home_command_output(false)") ELSE s
    ELSE IF ~s.commands_allowed THEN s
    ELSE IF go_home
         THEN LET s1 == IF winch_isActive(s) /\ ~s.enabled
                        THEN s
                        ELSE Logged(
                                 setAutoModeTarget(auto_setTargetLength(s, 0),
                                                   0),
                                 "target_output(0)")
                  s2 == IF s1.enabled
                        THEN setAutoModeEnabled(auto_setEnabled(s1, FALSE),
                                                FALSE)
                        ELSE s1
              IN  Logged(s2, "home_command_output(false)")
         ELSE s

\* Faulty variant: the bow thruster command is not gated by emergency stop.
signalk_bow_ignoresEmergencyStop(s, command) ==
    IF ~s.commands_allowed THEN s
    ELSE IF command = 1 THEN bow_turnStarboard(s)
    ELSE IF command = -1 THEN bow_turnPort(s)
    ELSE bow_stop(s)

signalk_bow(s, command) ==
    IF s.emergency_stop_active THEN s
    ELSE IF ~s.commands_allowed THEN s
    ELSE IF command = 1 THEN bow_turnStarboard(s)
    ELSE IF command = -1 THEN bow_turnPort(s)
    ELSE bow_stop(s)

\* Connection monitor, every 100 ms.
signalk_monitor(s, is_connected) ==
    LET s1 ==
          IF s.was_connected /\ ~is_connected
          THEN [setCommandsAllowed(
                    winch_stop(setAutoModeEnabled(auto_setEnabled(s, FALSE),
                                                  FALSE)),
                    FALSE)
                EXCEPT !.connection_stable_time = 0]
          ELSE IF ~s.was_connected /\ is_connected
          THEN [setCommandsAllowed(s, FALSE)
                EXCEPT !.connection_stable_time =
                           (s.now + kConnectionStableMs) % MillisModulus]
          ELSE IF is_connected /\ ~s.commands_allowed
                  /\ s.connection_stable_time > 0
                  /\ s.now >= s.connection_stable_time
          THEN setCommandsAllowed(s, TRUE)
          ELSE s
    IN  [s1 EXCEPT !.was_connected = is_connected]

TypeOK ==
    /\ pins \in [OutputPins -> {"HIGH", "LOW"}]
    /\ home_pin \in {"HIGH", "LOW"}
    /\ pulse_count \in Int
    /\ pc \in {"idle", "mid"}

Init ==
    /\ pins = [q \in OutputPins |-> "HIGH"]
    /\ home_pin \in {"HIGH", "LOW"}
    /\ overlap = {}
    /\ motor_active = FALSE
    /\ motor_direction = "STOPPED"
    /\ bow_active = FALSE
    /\ bow_direction = "STOPPED"
    /\ was_active = (home_pin = "LOW")
    /\ pulse_count = 0
    /\ rode_length = 0
    /\ emergency_stop_active = FALSE
    /\ auto_mode_enabled = FALSE
    /\ auto_mode_target = NoTarget
    /\ commands_allowed = FALSE
    /\ manual_control = 0
    /\ enabled = FALSE
    /\ target_length = NoTarget
    /\ target_reached = FALSE
    /\ remote_active = FALSE
    /\ prev_button_active = FALSE
    /\ last_press_ms = 0
    /\ press_start_ms = 0
    /\ long_press_fired = FALSE
    /\ was_connected = FALSE
    /\ connection_stable_time = 0
    /\ now = 0
    /\ pc = "idle"
    /\ log = <<>>

\* Interrupt service routine: direction read + counter adjust.  It may fire
\* between any two tick-loop operations and in the middle of
\* PulseCounterService::update().
\* Faulty variant: the interrupt handler also recomputes the rode length.
pulseISR_body_updatesLength(s, direction) ==
    PulseCounterService_length(
        IF direction = "HIGH" THEN incrementPulse(s) ELSE decrementPulse(s))

pulseISR_body(s, direction) ==
    IF direction = "HIGH" THEN incrementPulse(s) ELSE decrementPulse(s)

pulseISR ==
    \E direction \in {"HIGH", "LOW"} :
        /\ direction = "HIGH" => pulse_count < MaxPulse
        /\ Commit(pulseISR_body(S, direction))

\* The chain follows the winch: while the motor runs, every pulse arrives with
\* the direction input showing the way the winch turns (HIGH = chain out).
ChainPulse ==
    /\ motor_active
    /\ LET direction == IF pins["WINCH_DOWN"] = "LOW" THEN "HIGH" ELSE "LOW"
       IN  /\ direction = "HIGH" => pulse_count < MaxPulse
           /\ Commit(pulseISR_body(S, direction))

\* ------------------------------------------------- tick-loop operations
RemoteTick ==
    /\ pc = "idle"
    /\ \E up_pressed, down_pressed, func3_pressed, func4_pressed \in BOOLEAN :
          Commit(RemoteControl_processInputs(Begin, up_pressed, down_pressed,
                                             func3_pressed, func4_pressed))

PulseTickHome ==
    /\ pc = "idle"
    /\ Commit([PulseCounterService_home(Begin) EXCEPT !.pc = "mid"])

PulseTickLength ==
    /\ pc = "mid"
    /\ Commit([PulseCounterService_length(S) EXCEPT !.pc = "idle"])

AutoUpdateTick ==
    /\ pc = "idle"
    /\ Commit(auto_update(Begin, rode_length))

\* --------------------------- direct calls of AutomaticModeController
\* The controller's public methods called with any argument, as its unit
\* tests do; the call itself is the first entry of the log.
MaxLength == 2 * MaxPulse
LengthInputs == 0 .. MaxLength
AutoTargetInputs == {NoTarget - 1, NoTarget, 0, MaxPulse + 1}

SetTargetLengthCall ==
    /\ pc = "idle"
    /\ \E meters \in AutoTargetInputs :
          Commit(auto_setTargetLength(Logged(Begin, "auto.setTargetLength"),
                                      meters))

SetEnabledLabel(e) ==
    IF e THEN "auto.setEnabled(true)" ELSE "auto.setEnabled(false)"

SetEnabledCall ==
    /\ pc = "idle"
    /\ \E e \in BOOLEAN :
          Commit(auto_setEnabled(Logged(Begin, SetEnabledLabel(e)), e))

UpdateLabel(current_length) ==
    "auto.update(" \o ToString(current_length) \o ")"

UpdateCall ==
    /\ pc = "idle"
    /\ \E current_length \in LengthInputs :
          Commit(auto_update(Logged(Begin, UpdateLabel(current_length)),
                             current_length))

ConsumeLabel(reached) ==
    IF reached THEN "auto.consumeTargetReached:true"
               ELSE "auto.consumeTargetReached:false"

ConsumeTargetReachedCall ==
    /\ pc = "idle"
    /\ Commit(auto_consumeTargetReached(
                 Logged(Begin,
                        ConsumeLabel(auto_consumeTargetReached_result(Begin)))))

MonitorTick ==
    /\ pc = "idle"
    /\ \E is_connected \in BOOLEAN : Commit(signalk_monitor(Begin, is_connected))

ResetCommand ==
    /\ pc = "idle"
    /\ \E reset_signal \in BOOLEAN : Commit(signalk_reset(Begin, reset_signal))

EmergencyCommand ==
    /\ pc = "idle"
    /\ \E emergency_active \in BOOLEAN :
          Commit(signalk_emergency(Begin, emergency_active))

ManualCommand ==
    /\ pc = "idle"
    /\ \E command \in CommandInputs : Commit(signalk_manual(Begin, command))

AutoModeCommand ==
    /\ pc = "idle"
    /\ \E value \in {0, 1} : Commit(signalk_autoMode(Begin, value))

TargetCommand ==
    /\ pc = "idle"
    /\ \E target \in TargetInputs : Commit(signalk_target(Begin, target))

HomeCommand ==
    /\ pc = "idle"
    /\ \E go_home \in BOOLEAN : Commit(signalk_home(Begin, go_home))

BowCommand ==
    /\ pc = "idle"
    /\ \E command \in CommandInputs : Commit(signalk_bow(Begin, command))

\* ----------------------------------------------------------- environment
AdvanceTime ==
    /\ pc = "idle"
    /\ now + TimeStep <= MaxTime
    /\ now' = now + TimeStep
    /\ UNCHANGED <<pins, home_pin, overlap, motor_active, motor_direction,
                   bow_active, bow_direction, was_active, pulse_count,
                   rode_length, emergency_stop_active, auto_mode_enabled,
                   auto_mode_target, commands_allowed, manual_control, enabled,
                   target_length, target_reached, remote_active,
                   prev_button_active, last_press_ms, press_start_ms,
                   long_press_fired, was_connected, connection_stable_time,
                   pc, log>>

HomeSensorChange ==
    /\ pc = "idle"
    /\ home_pin' = IF home_pin = "LOW" THEN "HIGH" ELSE "LOW"
    /\ UNCHANGED <<pins, overlap, motor_active, motor_direction,
                   bow_active, bow_direction, was_active, pulse_count,
                   rode_length, emergency_stop_active, auto_mode_enabled,
                   auto_mode_target, commands_allowed, manual_control, enabled,
                   target_length, target_reached, remote_active,
                   prev_button_active, last_press_ms, press_start_ms,
                   long_press_fired, was_connected, connection_stable_time,
                   now, pc, log>>

\* millis() between two ticks of the remote, in steps fine enough to fall on
\* both sides of the double-press window and of the long-press time.
ClockStep == kDoublePressMs \div 2
MaxClock == 2 * kLongPressMs

ClockTick ==
    /\ pc = "idle"
    /\ now + ClockStep <= MaxClock
    /\ now' = now + ClockStep
    /\ UNCHANGED <<pins, home_pin, overlap, motor_active, motor_direction,
                   bow_active, bow_direction, was_active, pulse_count,
                   rode_length, emergency_stop_active, auto_mode_enabled,
                   auto_mode_target, commands_allowed, manual_control, enabled,
                   target_length, target_reached, remote_active,
                   prev_button_active, last_press_ms, press_start_ms,
                   long_press_fired, was_connected, connection_stable_time,
                   pc, log>>

\* A long uptime: millis() at the last step of the clock before the 32-bit
\* counter rolls over.
BeforeRollover == (MillisModulus \div TimeStep) * TimeStep

UptimePasses ==
    /\ pc = "idle"
    /\ now < BeforeRollover
    /\ now' = BeforeRollover
    /\ UNCHANGED <<pins, home_pin, overlap, motor_active, motor_direction,
                   bow_active, bow_direction, was_active, pulse_count,
                   rode_length, emergency_stop_active, auto_mode_enabled,
                   auto_mode_target, commands_allowed, manual_control, enabled,
                   target_length, target_reached, remote_active,
                   prev_button_active, last_press_ms, press_start_ms,
                   long_press_fired, was_connected, connection_stable_time,
                   pc, log>>

\* EmergencyStopService::setActive() called directly, whatever the state of
\* the connection; the call itself is the first entry of the log.
SetActiveLabel(active) == IF active THEN "setActive(true)" ELSE "setActive(false)"

EmergencyStopCall ==
    /\ pc = "idle"
    /\ \E active \in BOOLEAN :
          Commit(EmergencyStopService_setActive(
                     Logged(Begin, SetActiveLabel(active)), active, "direct"))

\* ------------- direct calls of the winch and bow propeller controllers
WinchMoveUpCall == pc = "idle" /\ Commit(winch_moveUp(Begin))
WinchMoveDownCall == pc = "idle" /\ Commit(winch_moveDown(Begin))
WinchStopCall == pc = "idle" /\ Commit(winch_stop(Begin))
BowTurnPortCall == pc = "idle" /\ Commit(bow_turnPort(Begin))
BowTurnStarboardCall == pc = "idle" /\ Commit(bow_turnStarboard(Begin))
BowStopCall == pc = "idle" /\ Commit(bow_stop(Begin))

\* The cooperative tick loop with all its commands and the clock.  The anchor
\* stays where it was at boot (home or away) and the chain does not move.
Next ==
    \/ RemoteTick
    \/ PulseTickHome
    \/ PulseTickLength
    \/ AutoUpdateTick
    \/ MonitorTick
    \/ ResetCommand
    \/ EmergencyCommand
    \/ ManualCommand
    \/ AutoModeCommand
    \/ TargetCommand
    \/ HomeCommand
    \/ BowCommand
    \/ AdvanceTime

\* The actuators: winch driven by the remote and by manual commands, bow
\* propeller commands, with the home sensor switching at any time.
NextWinch ==
    \/ RemoteTick
    \/ ManualCommand
    \/ BowCommand
    \/ HomeSensorChange
    \/ PulseTickHome
    \/ PulseTickLength
    \/ MonitorTick
    \/ AdvanceTime

SpecWinch == Init /\ [][NextWinch]_vars

\* The pulse counter with its interrupt, the pulse counter service, the home
\* sensor, reset and manual winch commands.
NextPulse ==
    \/ pulseISR
    \/ PulseTickHome
    \/ PulseTickLength
    \/ HomeSensorChange
    \/ MonitorTick
    \/ AdvanceTime
    \/ ResetCommand
    \/ ManualCommand

SpecPulse == Init /\ [][NextPulse]_vars

\* The emergency stop service with everything it stops: winch and bow
\* propeller commands, automatic mode with its update, and the pulse interrupt.
NextStop ==
    \/ EmergencyCommand
    \/ ManualCommand
    \/ BowCommand
    \/ AutoModeCommand
    \/ TargetCommand
    \/ AutoUpdateTick
    \/ MonitorTick
    \/ AdvanceTime
    \/ pulseISR

SpecStop == Init /\ [][NextStop]_vars

\* The automatic mode controller called directly, with the remote driving the
\* winch beside it and the home sensor switching at any time.
NextAuto ==
    \/ SetTargetLengthCall
    \/ SetEnabledCall
    \/ UpdateCall
    \/ RemoteTick
    \/ HomeSensorChange

SpecAuto == Init /\ [][NextAuto]_vars

\* The automatic mode controller alone with its latch: targets set, the
\* controller enabled and updated, the target-reached event consumed.
NextLatch ==
    \/ SetTargetLengthCall
    \/ SetEnabledCall
    \/ UpdateCall
    \/ ConsumeTargetReachedCall
    \/ HomeSensorChange

SpecLatch == Init /\ [][NextLatch]_vars

\* The hand-held remote against a millisecond clock: button gestures, the
\* emergency stop set and cleared beside it, the controller enabled or not.
NextRemote ==
    \/ RemoteTick
    \/ ClockTick
    \/ EmergencyStopCall
    \/ SetEnabledCall

SpecRemote == Init /\ [][NextRemote]_vars

\* The network command surface: every command path, the connection monitor
\* that allows the commands, and the clock it waits on.  The chain is at
\* rest: the count stays where it was at boot.
NextCommand ==
    \/ ResetCommand
    \/ EmergencyCommand
    \/ ManualCommand
    \/ AutoModeCommand
    \/ TargetCommand
    \/ HomeCommand
    \/ BowCommand
    \/ MonitorTick
    \/ AdvanceTime

SpecCommand == Init /\ [][NextCommand]_vars

\* The two relay motors called through their controllers, with the home
\* sensor switching at any time.
NextMotor ==
    \/ WinchMoveUpCall
    \/ WinchMoveDownCall
    \/ WinchStopCall
    \/ BowTurnPortCall
    \/ BowTurnStarboardCall
    \/ BowStopCall
    \/ HomeSensorChange

SpecMotor == Init /\ [][NextMotor]_vars

\* The control loop of the application around automatic mode: the two
\* automatic-mode commands, the connection monitor that allows them, the
\* pulse counter service on its timer and the chain moving with the winch.
\* The home sensor stays as it was at boot.
NextLoop ==
    \/ AutoModeCommand
    \/ TargetCommand
    \/ MonitorTick
    \/ AdvanceTime
    \/ ChainPulse
    \/ PulseTickHome
    \/ PulseTickLength

SpecLoop == Init /\ [][NextLoop]_vars

\* The pulse counter service runs on a repeating timer and the chain keeps
\* moving while the winch runs.
LiveSpecLoop ==
    /\ SpecLoop
    /\ WF_vars(PulseTickHome)
    /\ WF_vars(PulseTickLength)
    /\ WF_vars(ChainPulse)

\* The same loop with the home sensor switching at any time: the anchor
\* arrives at home and leaves it.
NextSeek ==
    \/ AutoModeCommand
    \/ TargetCommand
    \/ MonitorTick
    \/ AdvanceTime
    \/ ChainPulse
    \/ PulseTickHome
    \/ PulseTickLength
    \/ HomeSensorChange

SpecSeek == Init /\ [][NextSeek]_vars

\* The connection monitor against the clock, over a short and over a long
\* uptime, with the commands that start the winch and automatic mode.
NextLink ==
    \/ MonitorTick
    \/ AdvanceTime
    \/ UptimePasses
    \/ ManualCommand
    \/ AutoModeCommand
    \/ TargetCommand

SpecLink == Init /\ [][NextLink]_vars

Spec == Init /\ [][Next]_vars

\* ------------------------------------------------------------ properties
Contains(seq, event) == \E i \in DOMAIN seq : seq[i] = event
Count(seq, event) == Cardinality({i \in DOMAIN seq : seq[i] = event})

Energizes(q) == pins[q] = "HIGH" /\ pins'[q] = "LOW"
WinchStopped(p, active) ==
    ~active /\ p["WINCH_UP"] = "HIGH" /\ p["WINCH_DOWN"] = "HIGH"
BowStopped(p, active) ==
    ~active /\ p["BOW_PORT"] = "HIGH" /\ p["BOW_STARBOARD"] = "HIGH"

EmergencyStopHaltsAll ==
    (pc = "idle" /\ emergency_stop_active)
        => /\ WinchStopped(pins, motor_active)
           /\ BowStopped(pins, bow_active)
           /\ ~auto_mode_enabled

\* The emergency command handler reaching EmergencyStopService::setActive(x,
\* "signalk"): the network command is accepted and the service is entered.
SetActiveCall(x) ==
    /\ pc = "idle"
    /\ commands_allowed \/ emergency_stop_active
    /\ Commit(signalk_emergency(Begin, x))

\* C3: setActive(true, reason) called while emergency stop is cleared ends
\* with the flag set, winch stopped, bow propeller stopped, auto_mode_enabled
\* false, manual_control 0 and the callback invoked once with (true, reason),
\* whatever the winch, the propeller and the mode were doing.
ActivationStopsEverything ==
    [][(~emergency_stop_active /\ SetActiveCall(TRUE))
          => /\ emergency_stop_active'
             /\ WinchStopped(pins', motor_active')
             /\ BowStopped(pins', bow_active')
             /\ ~auto_mode_enabled'
             /\ manual_control' = 0
             /\ Count(log', "callback(true,signalk)") = 1
             /\ Count(log', "callback(false,signalk)") = 0
             /\ Contains(log', "winch.stop")
             /\ Contains(log', "bow.stop")]_vars

\* Activation through the service with the winch running down under automatic
\* mode and the bow propeller turning to port: both relays were released.
ActivationWitness ==
    /\ emergency_stop_active
    /\ enabled
    /\ log = <<"setActive(true)", "winch.stop", "WINCH_DOWN:off", "bow.stop",
               "BOW_PORT:off", "callback(true,signalk)">>

\* C4: setActive(x, reason) with emergency_stop_active already equal to x is a
\* no-op (no winch or propeller call, no StateManager write, no callback); a
\* call that changes the flag invokes the callback exactly once.
SetActiveIdempotent ==
    [][\A x \in BOOLEAN :
          SetActiveCall(x)
             => IF emergency_stop_active = x
                THEN /\ log' = <<IF x THEN "setActive(true)"
                                      ELSE "setActive(false)">>
                     /\ UNCHANGED <<pins, home_pin, overlap, motor_active,
                                    motor_direction, bow_active, bow_direction,
                                    was_active, pulse_count, rode_length,
                                    emergency_stop_active, auto_mode_enabled,
                                    auto_mode_target, commands_allowed,
                                    manual_control, enabled, target_length,
                                    target_reached, remote_active,
                                    prev_button_active, last_press_ms,
                                    press_start_ms, long_press_fired,
                                    was_connected, connection_stable_time,
                                    now, pc>>
                ELSE /\ emergency_stop_active' = x
                     /\ Count(log', "callback(true,signalk)")
                            = (IF x THEN 1 ELSE 0)
                     /\ Count(log', "callback(false,signalk)")
                            = (IF x THEN 0 ELSE 1)]_vars

\* setActive(true) called while emergency stop was already active, with the
\* winch running (an automatic update restarted it): the call returned at
\* once and stopped nothing.
SetActiveNoOpWitness ==
    /\ emergency_stop_active
    /\ motor_active
    /\ log = <<"setActive(true)">>

\* C5: setActive(false, reason) from the active state clears the flag and
\* invokes the callback, and changes nothing else: winch, propeller,
\* auto_mode_enabled, auto_mode_target, manual_control and pulse_count keep
\* their values, so no motion resumes.
DeactivationOnlyClearsFlag ==
    [][(emergency_stop_active /\ SetActiveCall(FALSE))
          => /\ ~emergency_stop_active'
             /\ log' = <<"setActive(false)", "callback(false,signalk)">>
             /\ UNCHANGED <<pins, overlap, motor_active, motor_direction,
                            bow_active, bow_direction, auto_mode_enabled,
                            auto_mode_target, manual_control, pulse_count,
                            rode_length, enabled, target_length,
                            target_reached, commands_allowed>>]_vars

\* Emergency stop cleared through the service while a target was armed, the
\* controller still enabled and pulses counted: the winch stays stopped.
DeactivationWitness ==
    /\ ~emergency_stop_active
    /\ log = <<"setActive(false)", "callback(false,signalk)">>
    /\ enabled
    /\ target_length > 0
    /\ pulse_count > 0
    /\ ~motor_active

\* The tick-loop operations that can call the winch controller's moveUp() or
\* moveDown().
WinchDrivingStep ==
    RemoteTick \/ ManualCommand \/ AutoModeCommand \/ AutoUpdateTick

\* C6: home interlock.  moveUp() called with the home sensor active leaves the
\* winch stopped and never energizes the up relay, whatever the winch was
\* doing; with the home sensor inactive it leaves the winch moving up;
\* moveDown() leaves the winch moving down wherever the home sensor is.
HomeInterlock ==
    [][WinchDrivingStep
          => /\ Contains(log', "winch.moveUp")
                  => IF home_pin = "LOW"
                     THEN /\ WinchStopped(pins', motor_active')
                          /\ ~Contains(log', "WINCH_UP:on")
                     ELSE /\ motor_active'
                          /\ motor_direction' = "UP"
                          /\ pins'["WINCH_UP"] = "LOW"
                          /\ pins'["WINCH_DOWN"] = "HIGH"
             /\ Contains(log', "winch.moveDown")
                  => /\ motor_active'
                     /\ motor_direction' = "DOWN"
                     /\ pins'["WINCH_DOWN"] = "LOW"
                     /\ pins'["WINCH_UP"] = "HIGH"]_vars

\* moveUp() called at home while the winch was moving up: it was stopped.
HomeInterlockWitness ==
    /\ home_pin = "LOW"
    /\ ~motor_active
    /\ log = <<"winch.moveUp", "winch.stop", "WINCH_UP:off">>

\* C7: the winch up and down relays are never both energized, not even
\* between the two pin writes of one call.
WinchRelaysExclusive ==
    /\ "winch" \notin overlap
    /\ ~BothLow(pins, WinchPins)

\* A direct reversal: moveUp() while moving down released the down relay
\* before it energized the up relay.
WinchReversalWitness ==
    /\ log = <<"winch.moveUp", "WINCH_DOWN:off", "WINCH_UP:on">>
    /\ pins["WINCH_UP"] = "LOW"

\* C8: the bow port and starboard relays are never both active, not even
\* between the two pin writes of one call.
BowRelaysExclusive ==
    /\ "bow" \notin overlap
    /\ ~BothLow(pins, BowPins)

\* A direct reversal: turnPort() while turning to starboard released the
\* starboard relay before it activated the port relay.
BowReversalWitness ==
    /\ log = <<"bow.turnPort", "BOW_STARBOARD:off", "BOW_PORT:on">>
    /\ pins["BOW_PORT"] = "LOW"

\* One run of the interrupt service routine with the given direction level.
IsrStep(direction) == Commit(pulseISR_body(S, direction))

\* C9: pulse floor.  pulse_count is never negative; a decrement at 0 leaves
\* 0, at n > 0 gives n - 1, and an increment gives n + 1.
PulseFloor ==
    [][/\ pulse_count >= 0
       /\ pulse_count' >= 0
       /\ IsrStep("LOW")
             => pulse_count' = (IF pulse_count = 0 THEN 0 ELSE pulse_count - 1)
       /\ IsrStep("HIGH") => pulse_count' = pulse_count + 1]_vars

\* The count was taken down to zero by decrements alone: the last tick
\* measured the full length and no tick, home arrival or reset came since.
PulseFloorWitness ==
    /\ pc = "idle"
    /\ pulse_count = 0
    /\ rode_length = MaxPulse * MetersPerPulse

\* C10: the interrupt handler changes pulse_count by at most one and nothing
\* else (no winch, automatic mode or emergency stop call), and the value the
\* tick loop reads in the middle of update() is non-negative.
IsrMinimal ==
    [][/\ (\E direction \in {"HIGH", "LOW"} : IsrStep(direction))
             => /\ pulse_count' \in {pulse_count - 1, pulse_count,
                                     pulse_count + 1}
                /\ UNCHANGED <<pins, home_pin, overlap, motor_active,
                               motor_direction, bow_active, bow_direction,
                               was_active, rode_length, emergency_stop_active,
                               auto_mode_enabled, auto_mode_target,
                               commands_allowed, manual_control, enabled,
                               target_length, target_reached, remote_active,
                               prev_button_active, last_press_ms,
                               press_start_ms, long_press_fired,
                               was_connected, connection_stable_time, now,
                               pc, log>>
       /\ PulseTickLength
             => /\ pulse_count >= 0
                /\ rode_length' = pulse_count * MetersPerPulse
                /\ rode_length' >= 0]_vars

\* The interrupt fired between the two halves of update(): the home half
\* reset the count to zero on arrival, and the count has moved again before
\* the length half reads it.
IsrMidTickWitness ==
    /\ pc = "mid"
    /\ Contains(log, "setPulseCount")
    /\ pulse_count > 0

\* Groups of variables for frame conditions.
WinchVars == <<pins, overlap, motor_active, motor_direction>>
ControllerVars == <<enabled, target_length, target_reached>>
RemoteVars == <<remote_active, prev_button_active, last_press_ms,
                press_start_ms, long_press_fired>>
StateManagerVars == <<pulse_count, rode_length, emergency_stop_active,
                      auto_mode_enabled, auto_mode_target, commands_allowed,
                      manual_control>>
RestVars == <<home_pin, bow_active, bow_direction, was_active,
              was_connected, connection_stable_time, now, pc>>

\* The three controller methods called with a given argument.
SetTargetLengthOf(meters) ==
    /\ pc = "idle"
    /\ Commit(auto_setTargetLength(Logged(Begin, "auto.setTargetLength"),
                                   meters))
SetEnabledOf(e) ==
    /\ pc = "idle"
    /\ Commit(auto_setEnabled(Logged(Begin, SetEnabledLabel(e)), e))
UpdateOf(current_length) ==
    /\ pc = "idle"
    /\ Commit(auto_update(Logged(Begin, UpdateLabel(current_length)),
                          current_length))

\* The winch commands one operation has issued.
WinchCommands(l) ==
    {c \in {"winch.moveUp", "winch.moveDown", "winch.stop"} : Contains(l, c)}

\* C11: setTargetLength(m) changes only target_length, for every prior state
\* and every m: enabled is unchanged and no winch command is issued.
TargetArmingFrame ==
    [][\A meters \in AutoTargetInputs :
          SetTargetLengthOf(meters)
             => /\ target_length' = meters
                /\ log' = <<"auto.setTargetLength">>
                /\ UNCHANGED <<enabled, target_reached, WinchVars, RemoteVars,
                               StateManagerVars, RestVars>>]_vars

\* A positive target armed while the controller is disabled: the winch was
\* stopped and stays stopped.
TargetArmedWitness ==
    /\ log = <<"auto.setTargetLength">>
    /\ target_length > 0
    /\ ~enabled
    /\ ~motor_active

MovingUp(p, active) == active /\ p["WINCH_UP"] = "LOW"
MovingDown(p, active) == active /\ p["WINCH_DOWN"] = "LOW"

\* C12: update(current_length) is a no-op whenever enabled is false or
\* target_length is negative, for every current_length: no winch command,
\* and enabled, target_length and target_reached keep their values.
UpdateNoOpWithoutTarget ==
    [][\A current_length \in LengthInputs :
          (UpdateOf(current_length) /\ (~enabled \/ target_length < 0))
             => /\ log' = <<UpdateLabel(current_length)>>
                /\ UNCHANGED <<ControllerVars, WinchVars, RemoteVars,
                               StateManagerVars, RestVars>>]_vars

\* update() called with the controller enabled on an invalid negative target
\* (not the sentinel): nothing moved.
UpdateNoOpWitness ==
    /\ enabled
    /\ target_length < NoTarget
    /\ ~motor_active
    /\ \E current_length \in LengthInputs :
          log = <<UpdateLabel(current_length)>>

\* C13: distance-targeting completion.  With enabled true and a positive
\* target, update(current) with |current - target| <= tolerance (boundary
\* included) ends with the winch stopped, enabled false and target_reached
\* latched, whether or not the winch was active; the winch is sent a stop only
\* if it was active.  Outside the band it neither disables nor latches.
DistanceCompletion ==
    [][\A current_length \in LengthInputs :
          (UpdateOf(current_length) /\ enabled /\ target_length > 0)
             => IF Abs(current_length - target_length) <= Tolerance
                THEN /\ WinchStopped(pins', motor_active')
                     /\ ~enabled'
                     /\ target_reached'
                     /\ target_length' = target_length
                     /\ WinchCommands(log')
                            = (IF motor_active THEN {"winch.stop"} ELSE {})
                ELSE /\ enabled'
                     /\ target_reached' = target_reached
                     /\ target_length' = target_length]_vars

\* update() called exactly on the lower boundary of the band with the winch
\* deploying: the winch was stopped, the controller disabled, the latch set.
CompletionAtBoundaryWitness ==
    /\ target_length > Tolerance
    /\ log = <<UpdateLabel(target_length - Tolerance), "winch.stop",
               "WINCH_DOWN:off">>
    /\ ~enabled
    /\ target_reached
    /\ ~motor_active

\* C14: distance-targeting direction.  With enabled true, a positive target
\* and |error| > tolerance, after update(current) the winch is moving down if
\* current < target, and moving up if current > target and the home sensor is
\* inactive; enabled stays true; a winch already moving in the required
\* direction receives no command.
DistanceDirection ==
    [][\A current_length \in LengthInputs :
          (/\ UpdateOf(current_length)
           /\ enabled
           /\ target_length > 0
           /\ Abs(current_length - target_length) > Tolerance)
             => /\ enabled'
                /\ IF current_length < target_length
                   THEN /\ MovingDown(pins', motor_active')
                        /\ WinchCommands(log')
                              = (IF MovingDown(pins, motor_active)
                                 THEN {} ELSE {"winch.moveDown"})
                   ELSE /\ home_pin = "HIGH" => MovingUp(pins', motor_active')
                        /\ MovingUp(pins, motor_active)
                              => /\ WinchCommands(log') = {}
                                 /\ UNCHANGED WinchVars
                        /\ ~MovingUp(pins, motor_active)
                              => Contains(log', "winch.moveUp")
                        /\ ~Contains(log', "winch.moveDown")]_vars

\* update(0) far below the target while the winch was retrieving: the
\* controller reversed it to deploy and stays enabled.
DirectionReversalWitness ==
    /\ enabled
    /\ target_length > Tolerance
    /\ log = <<UpdateLabel(0), "winch.moveDown", "WINCH_UP:off",
               "WINCH_DOWN:on">>

\* C15: home-targeting regime.  With enabled true and target_length exactly
\* 0, update() never changes enabled or target_reached and never issues
\* moveDown or stop; with the home sensor active it issues no winch command;
\* with the home sensor inactive the winch is moving up afterwards and
\* moveUp() is issued only if it was not already moving up.
HomeTargeting ==
    [][\A current_length \in LengthInputs :
          (UpdateOf(current_length) /\ enabled /\ target_length = 0)
             => /\ UNCHANGED ControllerVars
                /\ IF home_pin = "LOW"
                   THEN /\ WinchCommands(log') = {}
                        /\ UNCHANGED WinchVars
                   ELSE /\ MovingUp(pins', motor_active')
                        /\ WinchCommands(log')
                              = (IF MovingUp(pins, motor_active)
                                 THEN {} ELSE {"winch.moveUp"})]_vars

\* update() with target 0 away from home while the winch was deploying: it
\* was turned to retrieve, and the controller stays enabled.
HomeTargetingWitness ==
    /\ enabled
    /\ target_length = 0
    /\ home_pin = "HIGH"
    /\ ~target_reached
    /\ \E current_length \in LengthInputs :
          log = <<UpdateLabel(current_length), "winch.moveUp",
                  "WINCH_DOWN:off", "WINCH_UP:on">>

\* C16: setEnabled(false) always stops the winch and leaves target_length
\* unchanged; setEnabled(true) issues no winch command, and the controller
\* is then active (enabled with a target) only if target_length >= 0.
SetEnabledEffect ==
    [][\A e \in BOOLEAN :
          SetEnabledOf(e)
             => /\ enabled' = e
                /\ UNCHANGED <<target_length, target_reached, RemoteVars,
                               StateManagerVars, RestVars>>
                /\ IF e
                   THEN /\ log' = <<SetEnabledLabel(TRUE)>>
                        /\ UNCHANGED WinchVars
                        /\ (enabled' /\ target_length' >= 0)
                              <=> target_length >= 0
                   ELSE /\ WinchStopped(pins', motor_active')
                        /\ WinchCommands(log') = {"winch.stop"}]_vars

\* setEnabled(false) while the winch was retrieving towards an armed target:
\* the winch was stopped and the target is still armed.
DisableStopsWitness ==
    /\ log = <<SetEnabledLabel(FALSE), "winch.stop", "WINCH_UP:off">>
    /\ ~enabled
    /\ target_length > 0
    /\ ~motor_active

\* C17: after a PulseCounterService::update() tick with the home sensor
\* active the winch is not moving up: a winch found moving up is stopped, a
\* winch that is stopped or moving down is left as it is.
HomeStopsRetrieval ==
    [][/\ (PulseTickHome /\ home_pin = "LOW")
             => /\ ~MovingUp(pins', motor_active')
                /\ IF MovingUp(pins, motor_active)
                   THEN /\ WinchStopped(pins', motor_active')
                        /\ WinchCommands(log') = {"winch.stop"}
                   ELSE /\ UNCHANGED WinchVars
                        /\ WinchCommands(log') = {}
       /\ PulseTickLength => UNCHANGED WinchVars]_vars

\* The first half of a tick found the winch retrieving at home and stopped it.
RetrievalStoppedWitness ==
    /\ pc = "mid"
    /\ home_pin = "LOW"
    /\ ~motor_active
    /\ Len(log) >= 2
    /\ log[1] = "winch.stop"
    /\ log[2] = "WINCH_UP:off"

\* C18: update() resets pulse_count to 0 exactly on the first tick with the
\* home sensor active after a tick with it inactive (was_active is the level
\* the previous tick, or initialize(), has read: only a tick writes it, and
\* every tick writes the level it reads, at home or away); every other tick
\* leaves pulse_count as it is.
HomeArrivalReset ==
    [][/\ PulseTickHome
             => /\ was_active' = (home_pin = "LOW")
                /\ pulse_count' = (IF home_pin = "LOW" /\ ~was_active
                                   THEN 0 ELSE pulse_count)
       /\ PulseTickLength => UNCHANGED <<pulse_count, was_active>>
       /\ was_active' # was_active => PulseTickHome]_vars

\* An arrival tick after a tick that measured a positive length away from
\* reset: the count was put back to zero.
HomeArrivalWitness ==
    /\ pc = "mid"
    /\ Contains(log, "setPulseCount")
    /\ was_active
    /\ pulse_count = 0
    /\ rode_length > 0

ProcessInputsOf(up_pressed, down_pressed) ==
    /\ pc = "idle"
    /\ \E func3_pressed, func4_pressed \in BOOLEAN :
          Commit(RemoteControl_processInputs(Begin, up_pressed, down_pressed,
                                             func3_pressed, func4_pressed))

\* The previous operation was an automatic update that started the winch.
StartedByUpdate ==
    /\ Len(log) >= 1
    /\ \E current_length \in LengthInputs : log[1] = UpdateLabel(current_length)
    /\ WinchCommands(log) \in {{"winch.moveUp"}, {"winch.moveDown"}}
    /\ motor_active

ManualOverride ==
    [][\A up_pressed, down_pressed \in BOOLEAN :
          (ProcessInputsOf(up_pressed, down_pressed)
              /\ ~emergency_stop_active'
              /\ (up_pressed \/ down_pressed)
              /\ enabled)
             => /\ ~enabled'
                /\ ~auto_mode_enabled'
                /\ remote_active'
                /\ IF up_pressed
                   THEN IF home_pin = "LOW"
                        THEN WinchStopped(pins', motor_active')
                        ELSE MovingUp(pins', motor_active')
                   ELSE MovingDown(pins', motor_active')]_vars

\* One call of processInputs() with the four button inputs given.
ProcessInputsCall(up_pressed, down_pressed, func3_pressed, func4_pressed) ==
    /\ pc = "idle"
    /\ Commit(RemoteControl_processInputs(Begin, up_pressed, down_pressed,
                                          func3_pressed, func4_pressed))

\* A press transition has been seen before this step: its time is stamped in
\* last_press_ms, or (the stamp being 0) the previous operation was the tick
\* that stopped a winch the remote had been driving.
PressSeenBefore ==
    \/ last_press_ms > 0
    \/ Len(log) >= 1 /\ log[1] = "winch.stop"

\* C22: double press.  A tick on which the combined button state goes from
\* inactive to active while emergency stop is not active returns with
\* emergency stop active if and only if a previous such transition was seen
\* at most 800 ms earlier; a tick without such a transition does not
\* activate emergency stop.
DoublePressActivates ==
    [][\A up_pressed, down_pressed, func3_pressed, func4_pressed \in BOOLEAN :
          LET any_button_active == up_pressed \/ down_pressed
                                     \/ func3_pressed \/ func4_pressed
          IN  (ProcessInputsCall(up_pressed, down_pressed, func3_pressed,
                                 func4_pressed)
                  /\ ~emergency_stop_active)
                 => emergency_stop_active'
                       = (/\ any_button_active
                          /\ ~prev_button_active
                          /\ PressSeenBefore
                          /\ now - last_press_ms <= kDoublePressMs)]_vars

\* C23: long press.  A tick entered with emergency stop active clears it if
\* and only if the buttons have been held without interruption since a press
\* stamped at least 2000 ms ago and this hold has not cleared it before;
\* the hold is marked as having fired exactly when it clears, and keeps the
\* mark until the buttons are released.
LongPressClears ==
    [][\A up_pressed, down_pressed, func3_pressed, func4_pressed \in BOOLEAN :
          LET any_button_active == up_pressed \/ down_pressed
                                     \/ func3_pressed \/ func4_pressed
              held == any_button_active /\ prev_button_active
              clears == /\ emergency_stop_active
                        /\ held
                        /\ ~long_press_fired
                        /\ now - press_start_ms >= kLongPressMs
          IN  ProcessInputsCall(up_pressed, down_pressed, func3_pressed,
                                func4_pressed)
                 => /\ emergency_stop_active
                          => emergency_stop_active' = ~clears
                    /\ long_press_fired'
                          = (held /\ (long_press_fired \/ clears))]_vars

\* C24: remote gating.  A processInputs() tick that ends with emergency stop
\* active issues no moveUp() and no moveDown() whatever buttons are held and
\* does not touch automatic mode; if remote_active was true the winch is
\* stopped and remote_active cleared, otherwise no winch command is issued
\* and the winch is left as it is.
RemoteGating ==
    [][\A up_pressed, down_pressed, func3_pressed, func4_pressed \in BOOLEAN :
          (ProcessInputsCall(up_pressed, down_pressed, func3_pressed,
                             func4_pressed)
              /\ emergency_stop_active')
             => /\ UNCHANGED <<ControllerVars, auto_mode_enabled,
                               auto_mode_target>>
                /\ ~remote_active'
                /\ IF remote_active
                   THEN /\ WinchCommands(log') = {"winch.stop"}
                        /\ WinchStopped(pins', motor_active')
                   ELSE /\ log' = <<>>
                        /\ UNCHANGED WinchVars]_vars

\* A tick with a button held under emergency stop: the remote had been
\* driving, so the only command is the stop.
RemoteGatingWitness ==
    /\ emergency_stop_active
    /\ prev_button_active
    /\ log = <<"winch.stop">>
    /\ ~remote_active
    /\ ~motor_active

\* The step is the one that ends in state s (the log is compared first).
StepTo(s) == pc = "idle" /\ log' = s.log /\ Commit(s)

\* The network commands other than the emergency command, each with a given
\* argument.
ResetOf(reset_signal) == LET s == signalk_reset(Begin, reset_signal) IN StepTo(s)
ManualOf(command) == LET s == signalk_manual(Begin, command) IN StepTo(s)
AutoModeOf(value) == LET s == signalk_autoMode(Begin, value) IN StepTo(s)
TargetOf(target) == LET s == signalk_target(Begin, target) IN StepTo(s)
HomeOf(go_home) == LET s == signalk_home(Begin, go_home) IN StepTo(s)
BowOf(command) == LET s == signalk_bow(Begin, command) IN StepTo(s)

GatedCommand ==
    \/ \E reset_signal \in BOOLEAN : ResetOf(reset_signal)
    \/ \E command \in CommandInputs : ManualOf(command)
    \/ \E value \in {0, 1} : AutoModeOf(value)
    \/ \E target \in TargetInputs : TargetOf(target)
    \/ \E go_home \in BOOLEAN : HomeOf(go_home)
    \/ \E command \in CommandInputs : BowOf(command)

CommandsBlocked == ~commands_allowed \/ emergency_stop_active

\* C25: command gating.  A reset, manual, auto-mode, target, home or bow
\* thruster command received while commands_allowed is false or emergency
\* stop is active changes nothing: StateManager, controller, relays and every
\* other field keep their values and nothing is called on them (a home
\* command under emergency stop clears its own command output).  The gate is not
\* latched: with emergency stop cleared and commands allowed each of these
\* commands is executed.
CommandGating ==
    [][/\ (CommandsBlocked /\ GatedCommand)
             => /\ log' \in {<<>>, <<"home_command_output(false)">>}
                /\ UNCHANGED <<WinchVars, ControllerVars, RemoteVars,
                               StateManagerVars, RestVars>>
       /\ ~CommandsBlocked
             => /\ ResetOf(TRUE) => log' = <<"setPulseCount">>
                /\ ManualOf(-1) => MovingDown(pins', motor_active')
                /\ ManualOf(0) => WinchStopped(pins', motor_active')
                /\ (AutoModeOf(1) /\ ~enabled) => auto_mode_enabled'
                /\ \A target \in TargetInputs :
                      (TargetOf(target) /\ target >= 0)
                         => target_length' = target
                /\ (HomeOf(TRUE) /\ ~motor_active) => target_length' = 0
                /\ BowOf(1) => Contains(log', "bow.turnStarboard")
                /\ BowOf(-1) => Contains(log', "bow.turnPort")]_vars

\* Emergency stop has been active while automatic mode was on (the
\* controller is still enabled, StateManager's flag was cleared) and is
\* cleared again: a bow thruster command is executed.
GatingLiftedWitness ==
    /\ ~emergency_stop_active
    /\ commands_allowed
    /\ enabled
    /\ ~auto_mode_enabled
    /\ bow_active
    /\ Len(log) >= 1
    /\ log[1] = "bow.turnPort"

EmergencyOf(emergency_active) ==
    /\ pc = "idle"
    /\ Commit(signalk_emergency(Begin, emergency_active))

\* C27: the network emergency command is ignored, changing nothing, exactly
\* when commands_allowed is false and emergency stop is not active; in every
\* other state it is passed to EmergencyStopService::setActive() and the flag
\* ends as commanded.  Hence a clear command is honoured whenever emergency
\* stop is active, allowed or not, and emergency stop cannot be activated
\* over the network while commands are not allowed.
EmergencyCommandGate ==
    [][\A emergency_active \in BOOLEAN :
          EmergencyOf(emergency_active)
             => IF ~commands_allowed /\ ~emergency_stop_active
                THEN /\ log' = <<>>
                     /\ UNCHANGED <<WinchVars, ControllerVars, RemoteVars,
                                    StateManagerVars, RestVars>>
                ELSE /\ log' # <<>>
                     /\ log'[1] = SetActiveLabel(emergency_active)
                     /\ emergency_stop_active' = emergency_active
                     /\ UNCHANGED commands_allowed]_vars

\* Emergency stop was cleared over the network while commands were not
\* allowed.
ClearWhileNotAllowedWitness ==
    /\ log = <<"setActive(false)", "callback(false,signalk)">>
    /\ ~emergency_stop_active
    /\ ~commands_allowed

\* C28: an accepted reset command sets pulse_count and rode_length to 0,
\* stops the winch and clears the armed target, for every prior state; a
\* reset received while commands are not allowed changes nothing.
ResetClearsAll ==
    [][\A reset_signal \in BOOLEAN :
          ResetOf(reset_signal)
             => /\ (reset_signal /\ ~CommandsBlocked)
                      => /\ pulse_count' = 0
                         /\ rode_length' = 0
                         /\ WinchStopped(pins', motor_active')
                         /\ target_length' = NoTarget
                /\ ~commands_allowed
                      => UNCHANGED <<WinchVars, ControllerVars, RemoteVars,
                                     StateManagerVars, RestVars>>]_vars

\* C29: an accepted home command (true) arms the target 0 in the controller
\* and in StateManager; it never enables automatic mode and never starts the
\* winch: automatic mode, if it was enabled, is disabled and the winch
\* stopped, otherwise the winch is left as it is.  With the winch active
\* while automatic mode is disabled the command is refused and nothing
\* changes; the value false does nothing.
HomeCommandArms ==
    [][/\ (HomeOf(TRUE) /\ ~CommandsBlocked)
             => IF motor_active /\ ~enabled
                THEN /\ log' = <<"home_command_output(false)">>
                     /\ UNCHANGED <<WinchVars, ControllerVars, RemoteVars,
                                    StateManagerVars, RestVars>>
                ELSE /\ target_length' = 0
                     /\ auto_mode_target' = 0
                     /\ ~enabled'
                     /\ auto_mode_enabled' = (auto_mode_enabled /\ ~enabled)
                     /\ WinchCommands(log') \subseteq {"winch.stop"}
                     /\ IF enabled
                        THEN WinchStopped(pins', motor_active')
                        ELSE UNCHANGED WinchVars
                     /\ UNCHANGED <<target_reached, pulse_count, rode_length>>
       /\ HomeOf(FALSE)
             => UNCHANGED <<WinchVars, ControllerVars, StateManagerVars>>]_vars

\* The home target was armed while automatic mode was lowering the chain:
\* the mode is off, the winch stopped and the target is 0 on both sides.
HomeArmedWitness ==
    /\ log = <<"target_output(0)", "winch.stop", "WINCH_DOWN:off",
               "home_command_output(false)">>
    /\ target_length = 0
    /\ auto_mode_target = 0
    /\ ~enabled
    /\ ~auto_mode_enabled
    /\ commands_allowed
    /\ ~emergency_stop_active

\* C30: consumeTargetReached() returns the latch as it stands and leaves it
\* cleared, changing nothing else (enabled, target_length, the winch and every
\* other field keep their values); the latch is raised only by an update()
\* that reached its target and lowered only by consumeTargetReached(), so the
\* call returns true exactly when update() latched since the previous call,
\* and a second call straight after the first returns false.
ConsumeOf ==
    LET s == auto_consumeTargetReached(
                 Logged(Begin,
                        ConsumeLabel(auto_consumeTargetReached_result(Begin))))
    IN  StepTo(s)

ReachedByUpdate ==
    \E current_length \in LengthInputs :
        /\ UpdateOf(current_length)
        /\ enabled
        /\ target_length > 0
        /\ Abs(current_length - target_length) <= Tolerance

ConsumeLatch ==
    [][/\ ConsumeOf =>
            /\ log' = <<ConsumeLabel(target_reached)>>
            /\ ~target_reached'
            /\ [S EXCEPT !.target_reached = FALSE, !.log = log'] = S'
       /\ (log # <<>> /\ log[1] = ConsumeLabel(TRUE) /\ ConsumeOf)
            => log' = <<ConsumeLabel(FALSE)>>
       /\ (~target_reached /\ target_reached') => ReachedByUpdate
       /\ (target_reached /\ ~target_reached') => ConsumeOf]_vars

ConsumedWitness ==
    /\ log = <<ConsumeLabel(TRUE)>>
    /\ ~target_reached
    /\ ~enabled
    /\ target_length > 0

\* C31: a winch or bow propeller command repeated straight after itself
\* (moveUp with the home sensor inactive, moveDown, stop, turnPort,
\* turnStarboard, bow stop) changes no relay level at any point of the second
\* call (the call's log holds the call alone, no release and no energizing)
\* and leaves the relay outputs and the reported motor state as the first
\* call left them.
CallOf(s) == StepTo(s)

PreviousCall(label) == log # <<>> /\ log[1] = label

MotorOutputsKept ==
    /\ pins' = pins
    /\ motor_active' = motor_active
    /\ motor_direction' = motor_direction
    /\ bow_active' = bow_active
    /\ bow_direction' = bow_direction

RepeatedCommandIdempotent ==
    [][/\ (/\ PreviousCall("winch.moveUp")
           /\ MovingUp(pins, motor_active)
           /\ home_pin = "HIGH"
           /\ CallOf(winch_moveUp(Begin)))
          => log' = <<"winch.moveUp">> /\ MotorOutputsKept
       /\ (PreviousCall("winch.moveDown") /\ CallOf(winch_moveDown(Begin)))
          => log' = <<"winch.moveDown">> /\ MotorOutputsKept
       /\ (PreviousCall("winch.stop") /\ CallOf(winch_stop(Begin)))
          => log' = <<"winch.stop">> /\ MotorOutputsKept
       /\ (PreviousCall("bow.turnPort") /\ CallOf(bow_turnPort(Begin)))
          => log' = <<"bow.turnPort">> /\ MotorOutputsKept
       /\ (PreviousCall("bow.turnStarboard")
           /\ CallOf(bow_turnStarboard(Begin)))
          => log' = <<"bow.turnStarboard">> /\ MotorOutputsKept
       /\ (PreviousCall("bow.stop") /\ CallOf(bow_stop(Begin)))
          => log' = <<"bow.stop">> /\ MotorOutputsKept]_vars

RepeatedMoveDownWitness ==
    /\ log = <<"winch.moveDown">>
    /\ MovingDown(pins, motor_active)
    /\ motor_direction = "DOWN"

\* C32: hold time gathered before the emergency stop became active does not
\* count towards the long press.  When a step activates the emergency stop
\* while a button has been held for more than kLongPressMs, the next
\* processInputs() tick with a button still held, run on the state that step
\* leaves, keeps the emergency stop active.
HeldLongerThanLongPress(s) ==
    /\ s.prev_button_active
    /\ s.press_start_ms > 0
    /\ s.now - s.press_start_ms > kLongPressMs

StopSurvivesNextTick(s) ==
    \A up_pressed, down_pressed, func3_pressed, func4_pressed \in BOOLEAN :
        (up_pressed \/ down_pressed \/ func3_pressed \/ func4_pressed)
        => RemoteControl_processInputs([s EXCEPT !.log = <<>>], up_pressed,
                                       down_pressed, func3_pressed,
                                       func4_pressed).emergency_stop_active

LongPressCountsFromActivation ==
    [][(/\ ~emergency_stop_active
        /\ emergency_stop_active'
        /\ HeldLongerThanLongPress(S'))
       => StopSurvivesNextTick(S')]_vars

\* C33: the processInputs() tick in which the long press clears the emergency
\* stop issues no moveUp() and no moveDown() and energizes no winch relay,
\* whatever buttons are held.
ClearingTickStartsNoMotion ==
    [][\A up_pressed, down_pressed, func3_pressed, func4_pressed \in BOOLEAN :
          (/\ ProcessInputsCall(up_pressed, down_pressed, func3_pressed,
                                func4_pressed)
           /\ emergency_stop_active
           /\ ~emergency_stop_active')
          => /\ ~Contains(log', "winch.moveUp")
             /\ ~Contains(log', "winch.moveDown")
             /\ \A q \in WinchPins : ~Energizes(q)]_vars

\* C34: distance-targeting liveness.  Once automatic mode is active with a
\* target above 0 and the winch runs, with the control loop ticking and the
\* chain moving, a state follows in which the winch is stopped and automatic
\* mode is disabled in the controller and in the StateManager.
DistanceTargetingActive ==
    /\ enabled
    /\ auto_mode_enabled
    /\ target_length > 0
    /\ motor_active

DistanceTargetingCompletes ==
    DistanceTargetingActive
        ~> (/\ ~enabled
            /\ ~auto_mode_enabled
            /\ WinchStopped(pins, motor_active))

\* C35: home-seek completion.  A PulseCounterService::update() tick that
\* finds the home sensor active while automatic mode is enabled at target 0
\* ends with the winch stopped, pulse_count 0 (on arrival) and automatic mode
\* disabled; with an enabled target other than 0 the tick leaves automatic
\* mode enabled; and only an enable command that switches the controller on
\* ever energizes a winch relay.
HomeTickStep == pc = "idle" /\ pc' = "mid"

HomeSeekCompletion ==
    [][/\ (/\ HomeTickStep
           /\ home_pin = "LOW"
           /\ enabled
           /\ auto_mode_enabled)
          => IF target_length = 0
             THEN /\ WinchStopped(pins', motor_active')
                  /\ ~was_active => pulse_count' = 0
                  /\ ~auto_mode_enabled'
                  /\ ~enabled'
             ELSE auto_mode_enabled' /\ enabled'
       /\ (\E q \in WinchPins : Energizes(q)) => ~enabled /\ enabled']_vars

\* C36: arm-then-enable at the command layer.  An accepted target command
\* with target >= 0 arms the target, issues no moveUp() or moveDown() and
\* energizes no winch relay, and leaves the controller disabled: if the
\* controller was enabled it is disabled (StateManager flag included) and the
\* winch stopped, otherwise the winch is not touched.  An accepted negative
\* target changes nothing.
ArmThenEnable ==
    [][\A target \in TargetInputs :
          (TargetOf(target) /\ ~CommandsBlocked)
          => IF target >= 0
             THEN /\ target_length' = target
                  /\ auto_mode_target' = target
                  /\ ~enabled'
                  /\ ~Contains(log', "winch.moveUp")
                  /\ ~Contains(log', "winch.moveDown")
                  /\ \A q \in WinchPins : ~Energizes(q)
                  /\ IF enabled
                     THEN /\ ~auto_mode_enabled'
                          /\ WinchStopped(pins', motor_active')
                     ELSE /\ log' = <<>>
                          /\ UNCHANGED <<WinchVars, auto_mode_enabled>>
             ELSE /\ log' = <<>>
                  /\ UNCHANGED <<ControllerVars, WinchVars, auto_mode_enabled,
                                 auto_mode_target>>]_vars

\* A target of 1 arrived while the controller was enabled and the winch was
\* running down: the controller is disabled and the winch stopped.
RetargetedWhileRunningWitness ==
    /\ log = <<"winch.stop", "WINCH_DOWN:off">>
    /\ target_length = 1
    /\ auto_mode_target = 1
    /\ ~enabled
    /\ ~auto_mode_enabled
    /\ ~motor_active

\* C37: link monitoring.  commands_allowed becomes true only when the link
\* has been observed connected for at least 5000 ms since the connect
\* transition; the monitor tick that observes the link lost leaves automatic
\* mode disabled, the winch stopped and commands_allowed false; and
\* commands_allowed is never true while the last observed link state is
\* disconnected.
\* The time of the last observed connect transition, from the stamp the
\* monitor keeps, and the time passed since (32-bit millisecond arithmetic).
ConnectTransitionMs ==
    (connection_stable_time + MillisModulus - kConnectionStableMs)
        % MillisModulus

ConnectedForMs == (now + MillisModulus - ConnectTransitionMs) % MillisModulus

LinkMonitoring ==
    [][/\ (~commands_allowed /\ commands_allowed')
          => /\ was_connected
             /\ was_connected'
             /\ ConnectedForMs >= kConnectionStableMs
       /\ (was_connected /\ ~was_connected')
          => /\ ~enabled'
             /\ ~auto_mode_enabled'
             /\ WinchStopped(pins', motor_active')
             /\ ~commands_allowed'
       /\ commands_allowed' => was_connected']_vars

\* C38: up has priority.  A processInputs() tick with both the up and the
\* down button held, the home sensor inactive and the emergency stop
\* inactive before and after the tick, commands the winch up: moveUp() is
\* called and moveDown() is not, the winch ends moving up with the down relay
\* released, and the down relay is not energized during the tick.
UpButtonPriority ==
    [][\A func3_pressed, func4_pressed \in BOOLEAN :
          (/\ ProcessInputsCall(TRUE, TRUE, func3_pressed, func4_pressed)
           /\ ~emergency_stop_active
           /\ ~emergency_stop_active'
           /\ home_pin = "HIGH")
          => /\ Contains(log', "winch.moveUp")
             /\ ~Contains(log', "winch.moveDown")
             /\ ~Contains(log', "WINCH_DOWN:on")
             /\ MovingUp(pins', motor_active')
             /\ pins'["WINCH_DOWN"] = "HIGH"
             /\ remote_active']_vars

\* The winch was running down and a tick with up held turned it up.
UpPriorityWitness ==
    /\ log = <<"winch.moveUp", "WINCH_DOWN:off", "WINCH_UP:on">>
    /\ remote_active
    /\ prev_button_active
    /\ ~emergency_stop_active
    /\ home_pin = "HIGH"
    /\ MovingUp(pins, motor_active)

\* C39: between operations the StateManager's automatic-mode flags mirror the
\* controller: auto_mode_enabled equals the controller's enabled and
\* auto_mode_target equals its target_length.
AutoFlagsAgree ==
    pc = "idle" => /\ auto_mode_enabled = enabled
                   /\ auto_mode_target = target_length

\* C40: the monitor tick that observes the link lost leaves no actuator
\* running: the winch and the bow propeller are both stopped.
LinkLossStopsActuators ==
    [][(was_connected /\ ~was_connected')
       => /\ WinchStopped(pins', motor_active')
          /\ BowStopped(pins', bow_active')]_vars
====
